---- MODULE Spec2Model ----
(***************************************************************************)
(* A model of py_structure.py: the module resolver (get_module_name,       *)
(* resolve_relative_import), the import extractor (analyze_imports), the   *)
(* graph builder (collect_modules_and_imports, build_reverse_dep_graph),   *)
(* the breadth-first search trace_dependency_paths and the seven query     *)
(* modes of main.                                                          *)
(*                                                                         *)
(* A Python str is a sequence of one-character strings, so that split,     *)
(* join, startswith, endswith and slicing are computed on characters.      *)
(***************************************************************************)
EXTENDS Naturals, Sequences, FiniteSets, TLC

VARIABLES
    disk,            \* the file system: path |-> file content
    roots,           \* args.root
    pc,              \* position in main / trace_dependency_paths
    mode,            \* args.mode
    package,         \* args.package
    all_modules,     \* modules returned by collect_modules_and_imports
    all_imports,     \* imports returned by collect_modules_and_imports
    module_to_path,  \* module_to_path returned by collect_modules_and_imports
    reverse_deps,    \* trace_dependency_paths: reverse_deps
    start_modules,   \* trace_dependency_paths: start_modules
    queue,           \* trace_dependency_paths: queue
    visited,         \* trace_dependency_paths: visited
    paths,           \* trace_dependency_paths: paths
    enqueued,        \* how many times each node was appended to queue
    out              \* what main printed

vars == <<disk, roots, pc, mode, package, all_modules, all_imports,
          module_to_path, reverse_deps, start_modules, queue, visited,
          paths, enqueued, out>>

----------------------------------------------------------------------------
(* Python str and list operations.                                         *)

\* None; no str (a sequence of one-character strings) equals it.
None == <<"None">>

\* not x, for x a str or None
Falsy(x) == x = None \/ x = <<>>

\* s.startswith(p)
StartsWith(s, p) == Len(p) <= Len(s) /\ SubSeq(s, 1, Len(p)) = p

\* s.endswith(p)
EndsWith(s, p) == Len(p) <= Len(s) /\ SubSeq(s, Len(s) - Len(p) + 1, Len(s)) = p

\* The pieces of s between the positions at, taken in increasing order
RECURSIVE Pieces(_, _, _)
Pieces(s, from, at) ==
    IF at = {} THEN <<SubSeq(s, from, Len(s))>>
    ELSE LET i == CHOOSE k \in at : \A j \in at : k <= j
         IN  <<SubSeq(s, from, i - 1)>> \o Pieces(s, i + 1, at \ {i})

\* s.split(c) for a one-character separator c
Split(s, c) == Pieces(s, 1, {k \in 1..Len(s) : s[k] = c})

\* c.join(parts)
RECURSIVE Join(_, _)
Join(parts, c) ==
    IF parts = <<>> THEN <<>>
    ELSE IF Len(parts) = 1 THEN parts[1]
    ELSE parts[1] \o <<c>> \o Join(Tail(parts), c)

\* xs[:-n] for n >= 0 (xs[:-0] is xs[:0], the empty list)
DropLast(xs, n) ==
    IF n = 0 \/ n >= Len(xs) THEN <<>> ELSE SubSeq(xs, 1, Len(xs) - n)

\* xs[-1]
Last(xs) == xs[Len(xs)]

\* d[k] = v
Put(d, k, v) == [x \in DOMAIN d \cup {k} |-> IF x = k THEN v ELSE d[x]]

\* The characters of the model in code point order: str comparison.
Ascii == <<"-", ".", "/", "<", ">", "A", "_", "a", "b", "c", "d", "e", "f",
           "g", "i", "k", "l", "n", "o", "p", "s", "t", "u", "v", "x", "y",
           "z">>

Ord(ch) == CHOOSE i \in DOMAIN Ascii : Ascii[i] = ch

\* a < b for two str
RECURSIVE StrLess(_, _)
StrLess(a, b) ==
    IF b = <<>> THEN FALSE
    ELSE IF a = <<>> THEN TRUE
    ELSE IF a[1] # b[1] THEN Ord(a[1]) < Ord(b[1])
    ELSE StrLess(Tail(a), Tail(b))

\* a < b for two lists of str (the parts of two paths)
RECURSIVE PartsLess(_, _)
PartsLess(a, b) ==
    IF b = <<>> THEN FALSE
    ELSE IF a = <<>> THEN TRUE
    ELSE IF a[1] # b[1] THEN StrLess(a[1], b[1])
    ELSE PartsLess(Tail(a), Tail(b))

\* sorted(S) for a set of str
RECURSIVE Sorted(_)
Sorted(S) ==
    IF S = {} THEN <<>>
    ELSE LET m == CHOOSE x \in S : \A y \in S \ {x} : StrLess(x, y)
         IN  <<m>> \o Sorted(S \ {m})

\* The orders in which a set can be iterated: its elements, each once.
RECURSIVE Orders(_)
Orders(S) ==
    IF S = {} THEN {<<>>}
    ELSE UNION {{<<x>> \o s : s \in Orders(S \ {x})} : x \in S}

----------------------------------------------------------------------------
(* os.path and pathlib on POSIX paths.                                     *)

Sep == "/"
Dot == "."
PyExt == <<".", "p", "y">>
Cwd == <<"/", "x">>

\* The parts of a normalised path: empty and "." parts dropped, ".." resolved.
RECURSIVE NormParts(_, _)
NormParts(parts, acc) ==
    IF parts = <<>> THEN acc
    ELSE IF parts[1] = <<>> \/ parts[1] = <<Dot>> THEN NormParts(Tail(parts), acc)
    ELSE IF parts[1] = <<Dot, Dot>> THEN NormParts(Tail(parts), DropLast(acc, 1))
    ELSE NormParts(Tail(parts), Append(acc, parts[1]))

\* The parts of os.path.abspath(p) below "/"
AbsParts(p) ==
    NormParts(Split(IF StartsWith(p, <<Sep>>) THEN p ELSE Cwd \o <<Sep>> \o p, Sep),
              <<>>)

\* os.path.abspath(p)
abspath(p) == <<Sep>> \o Join(AbsParts(p), Sep)

\* The length of the longest common prefix of two lists
RECURSIVE CommonLen(_, _)
CommonLen(a, b) ==
    IF a = <<>> \/ b = <<>> \/ a[1] # b[1] THEN 0
    ELSE 1 + CommonLen(Tail(a), Tail(b))

\* os.path.relpath(p, start)
relpath(p, start) ==
    LET pp  == AbsParts(p)
        sp  == AbsParts(start)
        n   == CommonLen(pp, sp)
        ups == [i \in 1..(Len(sp) - n) |-> <<Dot, Dot>>]
        rel == ups \o SubSeq(pp, n + 1, Len(pp))
    IN  IF rel = <<>> THEN <<Dot>> ELSE Join(rel, Sep)

\* os.path.join(a, *parts), no part absolute or empty
pathjoin(a, parts) ==
    IF parts = <<>> THEN a
    ELSE IF EndsWith(a, <<Sep>>) THEN a \o Join(parts, Sep)
    ELSE a \o <<Sep>> \o Join(parts, Sep)

\* os.path.isfile(p)
isfile(p) == p \in DOMAIN disk

\* os.path.dirname of an absolute normalised path
dirname(p) == <<Sep>> \o Join(DropLast(AbsParts(p), 1), Sep)

\* Path(p).relative_to(Path(d)) does not raise ValueError
IsRelativeTo(p, d) ==
    LET pp == AbsParts(p)
        dp == AbsParts(d)
    IN  Len(dp) <= Len(pp) /\ SubSeq(pp, 1, Len(dp)) = dp

----------------------------------------------------------------------------
(* Module resolver.                                                        *)

get_module_name(root, file_path) ==
    LET r == abspath(root)
        f == abspath(file_path)
    IN  IF ~EndsWith(f, PyExt) \/ ~StartsWith(f, r) THEN None
        ELSE LET relative_path == relpath(f, r)
             IN  IF StartsWith(relative_path, <<Dot, Dot>>) THEN None
                 ELSE Last(Split(r, Sep)) \o <<Dot>>
                      \o Join(Split(DropLast(relative_path, 3), Sep), Dot)

Invalid == <<"<", "i", "n", "v", "a", "l", "i", "d", ">">>

resolve_relative_import(caller_parts, level, module) ==
    IF level > Len(caller_parts) THEN Invalid
    ELSE LET base == DropLast(caller_parts, level)
         IN  Join(IF Falsy(module) THEN base ELSE base \o Split(module, Dot), Dot)

----------------------------------------------------------------------------
(* Import extractor.  A file's content is [parses, nodes]: whether         *)
(* ast.parse accepts it, and its Import and ImportFrom nodes in the order  *)
(* of ast.walk.  A node is [type, module, names, level].                   *)

\* The target of one name of "from module import name" (level 0)
full_module(root, module, name) ==
    LET full_module_path  == pathjoin(root, Split(module, Dot) \o <<name \o PyExt>>)
        full_package_path ==
            pathjoin(root, Split(module, Dot) \o <<name, <<"_", "_", "i", "n", "i", "t", "_", "_">> \o PyExt>>)
    IN  IF isfile(full_module_path) \/ isfile(full_package_path)
        THEN module \o <<Dot>> \o name
        ELSE module

\* NodeEdges with one edge per statement for a plain import
NodeEdgesPerStatement(root, caller_module, node) ==
    IF node.type = "Import"
    THEN << <<caller_module, node.names[1]>> >>
    ELSE IF node.level > 0
    THEN << <<caller_module,
              resolve_relative_import(Split(caller_module, Dot), node.level, node.module)>> >>
    ELSE IF ~Falsy(node.module)
    THEN [i \in 1..Len(node.names) |->
             <<caller_module, full_module(root, node.module, node.names[i])>>]
    ELSE <<>>

\* The edges one node of the tree appends to result
NodeEdges(root, caller_module, node) ==
    IF node.type = "Import"
    THEN [i \in 1..Len(node.names) |-> <<caller_module, node.names[i]>>]
    ELSE IF node.level > 0
    THEN << <<caller_module,
              resolve_relative_import(Split(caller_module, Dot), node.level, node.module)>> >>
    ELSE IF ~Falsy(node.module)
    THEN [i \in 1..Len(node.names) |->
             <<caller_module, full_module(root, node.module, node.names[i])>>]
    ELSE <<>>

RECURSIVE WalkTree(_, _, _)
WalkTree(root, caller_module, nodes) ==
    IF nodes = <<>> THEN <<>>
    ELSE NodeEdges(root, caller_module, nodes[1])
         \o WalkTree(root, caller_module, Tail(nodes))

analyze_imports(root, file_path) ==
    LET caller_module == get_module_name(root, file_path)
    IN  IF Falsy(caller_module) THEN <<>>
        ELSE IF ~isfile(file_path) \/ ~disk[file_path].parses THEN <<>>
        ELSE WalkTree(root, caller_module, disk[file_path].nodes)

----------------------------------------------------------------------------
(* Graph builder.                                                          *)

\* The files os.walk(root) lists, as the paths os.path.join(dirpath, filename)
WalkFiles(root) ==
    LET top == abspath(root)
    IN  {p \in DOMAIN disk : p # top /\ IsRelativeTo(p, top)}

\* The directories above a path, "/" included
Ancestors(p) ==
    LET parts == AbsParts(p)
    IN  {<<Sep>> \o Join(SubSeq(parts, 1, k), Sep) : k \in 0..(Len(parts) - 1)}

\* The directories os.walk(root) visits: root and every directory below it
WalkDirs(root) ==
    {abspath(root)} \cup
    {d \in UNION {Ancestors(p) : p \in WalkFiles(root)} : IsRelativeTo(d, root)}

\* The filenames of one step of os.walk(root), as paths: the files of dirpath
FilesIn(root, dirpath) == {p \in WalkFiles(root) : dirname(p) = dirpath}

\* The dirnames of one step of os.walk(root), as paths
SubDirs(root, dirpath) == {d \in WalkDirs(root) : d # dirpath /\ dirname(d) = dirpath}

\* The orders in which os.walk, top down, can list the files from dirpath on:
\* the files of dirpath, then the walk of each directory in it, one after the
\* other; the order of the entries of a directory is the file system's.
RECURSIVE WalkFrom(_, _)
RECURSIVE WalkEach(_, _)
WalkFrom(root, dirpath) ==
    {files \o below :
        files \in Orders(FilesIn(root, dirpath)),
        below \in UNION {WalkEach(root, dirs) : dirs \in Orders(SubDirs(root, dirpath))}}

WalkEach(root, dirs) ==
    IF dirs = <<>> THEN {<<>>}
    ELSE {first \o rest :
             first \in WalkFrom(root, dirs[1]), rest \in WalkEach(root, Tail(dirs))}

\* The orders in which os.walk(root) can list the files
WalkOrders(root) == WalkFrom(root, abspath(root))

\* The (root, file_path) pairs in the order the loops of lines 67-71 reach them
RECURSIVE Walks(_)
Walks(rs) ==
    IF rs = <<>> THEN {<<>>}
    ELSE {[i \in DOMAIN s |-> <<rs[1], s[i]>>] \o rest :
             s \in WalkOrders(rs[1]), rest \in Walks(Tail(rs))}

\* The loops of lines 67-76 over the files in the order walk; st holds the
\* locals modules, files and module_to_path.
RECURSIVE CollectFiles(_, _)
CollectFiles(walk, st) ==
    IF walk = <<>> THEN st
    ELSE LET root      == walk[1][1]
             file_path == walk[1][2]
             module    == get_module_name(root, file_path)
         IN  IF EndsWith(file_path, PyExt) /\ ~Falsy(module)
             THEN CollectFiles(Tail(walk),
                      [modules |-> st.modules \cup {module},
                       files |-> Append(st.files, <<root, file_path>>),
                       module_to_path |->
                           Put(st.module_to_path, module, abspath(file_path))])
             ELSE CollectFiles(Tail(walk), st)

\* Lines 77-79
RECURSIVE ExtendImports(_)
ExtendImports(files) ==
    IF files = <<>> THEN <<>>
    ELSE analyze_imports(files[1][1], files[1][2]) \o ExtendImports(Tail(files))

\* collect_modules_and_imports(roots), os.walk listing the files in the order walk
collect_modules_and_imports(walk) ==
    LET st == CollectFiles(walk, [modules |-> {}, files |-> <<>>, module_to_path |-> <<>>])
    IN  [modules |-> st.modules,
         imports |-> ExtendImports(st.files),
         module_to_path |-> st.module_to_path]

\* The elements of a list
Range(xs) == {xs[i] : i \in DOMAIN xs}

\* d.get(k, [])
Get(d, k) == IF k \in DOMAIN d THEN d[k] ELSE {}

\* build_reverse_dep_graph, from the set of the edges
ReverseOf(edges) ==
    [imported \in {e[2] : e \in edges} |-> {e[1] : e \in {x \in edges : x[2] = imported}}]

build_reverse_dep_graph(imports) == ReverseOf(Range(imports))

----------------------------------------------------------------------------
(* trace_dependency_paths: one step per iteration of the while loop.       *)

\* InitialVisited with the seeds left out of visited
InitialVisitedNone(start) == {}

\* visited = set(start_modules)
InitialVisited(start) == start

\* dependent not in visited
NotVisited(dependent, seen) == dependent \notin seen

\* Enqueue at the wrong end of the deque (appendleft)
EnqueueFront(q, item) == <<item>> \o q

\* queue.append(item)
Enqueue(q, item) == Append(q, item)

\* paths[dependent] = path + [dependent]
Record(d, dependent, path) == Put(d, dependent, path \o <<dependent>>)

\* The for loop of lines 94-98 over the dependents in the order given;
\* st holds the locals visited, paths, queue and the count of the appends.
RECURSIVE VisitDependents(_, _, _)
VisitDependents(dependents, path, st) ==
    IF dependents = <<>> THEN st
    ELSE LET dependent == dependents[1]
         IN  IF NotVisited(dependent, st.visited)
             THEN VisitDependents(Tail(dependents), path,
                      [visited  |-> st.visited \cup {dependent},
                       paths    |-> Record(st.paths, dependent, path),
                       queue    |-> Enqueue(st.queue, <<dependent, path \o <<dependent>> >>),
                       enqueued |-> Put(st.enqueued, dependent,
                                        1 + (IF dependent \in DOMAIN st.enqueued
                                             THEN st.enqueued[dependent] ELSE 0))])
             ELSE VisitDependents(Tail(dependents), path, st)

\* Lines 89-91: the locals before the loop, start_modules iterated in order
TraceLocals(start, order) ==
    [paths    |-> <<>>,
     queue    |-> [i \in DOMAIN order |-> <<order[i], <<order[i]>> >>],
     visited  |-> InitialVisited(start),
     enqueued |-> [n \in start |-> 1]]

\* One iteration of the while loop of lines 92-98
TraceStep ==
    /\ pc = "trace"
    /\ queue # <<>>
    /\ LET current == Head(queue)[1]
           path    == Head(queue)[2]
       IN  \E order \in Orders(Get(reverse_deps, current)) :
               LET st == VisitDependents(order, path,
                             [visited |-> visited, paths |-> paths,
                              queue |-> Tail(queue), enqueued |-> enqueued])
               IN  /\ visited' = st.visited
                   /\ paths' = st.paths
                   /\ queue' = st.queue
                   /\ enqueued' = st.enqueued
    /\ UNCHANGED <<disk, roots, pc, mode, package, all_modules, all_imports,
                   module_to_path, reverse_deps, start_modules, out>>

\* Line 99: the loop ends on the empty queue
TraceReturn ==
    /\ pc = "trace"
    /\ queue = <<>>
    /\ pc' = "returned"
    /\ UNCHANGED <<disk, roots, mode, package, all_modules, all_imports,
                   module_to_path, reverse_deps, start_modules, queue, visited,
                   paths, enqueued, out>>

----------------------------------------------------------------------------
(* The inputs: the trees, the lists of roots, the packages asked for, and   *)
(* the graphs and seeds given to trace_dependency_paths.                   *)

MaxFiles == 3
MaxEdges == 3

S_x    == <<"x">>
S_pkgA == <<"p", "k", "g", "A">>
S_init == <<"_", "_", "i", "n", "i", "t", "_", "_">>
S_a    == <<"a">>
S_b    == <<"b">>
S_c    == <<"c">>
S_d    == <<"d">>
S_f    == <<"f">>
S_g    == <<"g">>
S_y    == <<"y">>
S_zz   == <<"z", "z">>
S_os   == <<"o", "s">>
S_sub  == <<"s", "u", "b">>
S_sib  == <<"s", "i", "b">>
S_ab   == <<"a", ".", "b">>
S_notes == <<"n", "o", "t", "e", "s", ".", "t", "x", "t">>

RootA == <<Sep>> \o Join(<<S_x, S_pkgA>>, Sep)

Py(name) == name \o PyExt
Under(parts) == pathjoin(RootA, parts)
Dotted(parts) == Join(parts, Dot)

Import(names) == [type |-> "Import", module |-> None, names |-> names, level |-> 0]
ImportFrom(module, names, level) ==
    [type |-> "ImportFrom", module |-> module, names |-> names, level |-> level]
Source(nodes) == [parses |-> TRUE, nodes |-> nodes]
Unparsable == [parses |-> FALSE, nodes |-> <<>>]

\* The files a tree is made of: a path and a content
Candidates ==
    << [path |-> Under(<<Py(S_init)>>), content |-> Source(<<>>)],
       [path |-> Under(<<Py(S_a)>>),
        content |-> Source(<<Import(<<Dotted(<<S_pkgA, S_b>>)>>)>>)],
       [path |-> Under(<<Py(S_a)>>),
        content |-> Source(<<ImportFrom(None, <<S_b>>, 1)>>)],
       [path |-> Under(<<Py(S_a)>>),
        content |-> Source(<<ImportFrom(Dotted(<<S_pkgA, S_b>>), <<S_x>>, 2),
                             ImportFrom(None, <<S_y>>, 3)>>)],
       [path |-> Under(<<Py(S_b)>>), content |-> Source(<<>>)],
       [path |-> Under(<<Py(S_b)>>),
        content |-> Source(<<ImportFrom(S_a, <<S_f, S_g>>, 1)>>)],
       [path |-> Under(<<Py(S_b)>>), content |-> Unparsable],
       [path |-> Under(<<S_sub, Py(S_c)>>),
        content |-> Source(<<ImportFrom(None, <<S_a>>, 2)>>)],
       [path |-> Under(<<S_sub, Py(S_c)>>),
        content |-> Source(<<Import(<<S_os, Dotted(<<S_pkgA, S_sib, S_d>>)>>)>>)],
       [path |-> Under(<<S_sub, Py(S_c)>>),
        content |-> Source(<<ImportFrom(S_a, <<S_x>>, 2)>>)],
       [path |-> Under(<<S_sib, Py(S_d)>>),
        content |-> Source(<<ImportFrom(S_sub, <<S_c, S_zz>>, 0),
                             Import(<<Dotted(<<S_pkgA, S_sub, S_c>>)>>)>>)],
       [path |-> Under(<<Py(S_ab)>>), content |-> Source(<<>>)],
       [path |-> Under(<<S_a, Py(S_b)>>),
        content |-> Source(<<Import(<<Dotted(<<S_pkgA, S_a, S_b>>)>>)>>)],
       [path |-> Under(<<S_sub, S_c, Py(S_init)>>), content |-> Source(<<>>)],
       [path |-> Under(<<S_sub, S_notes>>), content |-> Unparsable] >>

\* The trees: at most MaxFiles of the files, no path twice
Disks ==
    {[p \in {Candidates[i].path : i \in I} |->
         Candidates[CHOOSE i \in I : Candidates[i].path = p].content] :
        I \in {J \in SUBSET DOMAIN Candidates :
                  /\ Cardinality(J) <= MaxFiles
                  /\ \A i, j \in J : i # j => Candidates[i].path # Candidates[j].path}}

RootSub == Under(<<S_sub>>)

\* The --root options given, each appended to args.root: the package, its
\* subdirectory sub, or the package and then sub, nested in it
RootLists == {<<RootA>>, <<RootSub>>, <<RootA, RootSub>>}

Packages == {Dotted(<<S_pkgA, S_a>>), Dotted(<<S_pkgA, S_b>>), S_os, S_pkgA}

\* The nodes of the graphs given to trace_dependency_paths alone
Nodes == {S_a, S_b, S_c, S_d}

Graphs == {E \in SUBSET (Nodes \X Nodes) : Cardinality(E) <= MaxEdges}

----------------------------------------------------------------------------
(* main.                                                                   *)

\* Line 124
CollectModulesAndImports ==
    /\ pc = "start"
    /\ \E walk \in Walks(roots) :
           LET r == collect_modules_and_imports(walk)
           IN  /\ all_modules' = r.modules
               /\ all_imports' = r.imports
               /\ module_to_path' = r.module_to_path
    /\ pc' = "main"
    /\ UNCHANGED <<disk, roots, mode, package, reverse_deps, start_modules,
                   queue, visited, paths, enqueued, out>>

\* What a mode that does not search leaves behind
Printed(m, lines) ==
    /\ pc = "main"
    /\ mode' = m
    /\ out' = lines
    /\ pc' = "done"
    /\ UNCHANGED <<disk, roots, package, all_modules, all_imports, module_to_path,
                   reverse_deps, start_modules, queue, visited, paths, enqueued>>

\* sorted(xs) for a list of str
RECURSIVE SortedList(_)
SortedList(xs) ==
    IF xs = <<>> THEN <<>>
    ELSE LET rest == SortedList(Tail(xs))
             n    == Cardinality({i \in DOMAIN rest : ~StrLess(xs[1], rest[i])})
         IN  SubSeq(rest, 1, n) \o <<xs[1]>> \o SubSeq(rest, n + 1, Len(rest))

\* sorted(ps) for a list of Path
RECURSIVE SortedPaths(_)
SortedPaths(ps) ==
    IF ps = <<>> THEN <<>>
    ELSE LET rest == SortedPaths(Tail(ps))
             n    == Cardinality({i \in DOMAIN rest :
                                     ~PartsLess(AbsParts(ps[1]), AbsParts(rest[i]))})
         IN  SubSeq(rest, 1, n) \o <<ps[1]>> \o SubSeq(rest, n + 1, Len(rest))

\* Lines 128-130
DepLines ==
    LET internal(e) == e[2] \in all_modules
    IN  SelectSeq(all_imports, internal)

Dep == Printed("dep", DepLines)

\* has_deps taken from the targets of the edges instead of their callers
has_deps_incoming == {e[2] : e \in {x \in Range(all_imports) : x[2] \in all_modules}}

\* has_deps with the test of the target left out
has_deps_any_edge == {e[1] : e \in Range(all_imports)}

\* Lines 133-134 and 140-141
has_deps == {e[1] : e \in {x \in Range(all_imports) : x[2] \in all_modules}}

no_deps == all_modules \ has_deps

\* Lines 136-137
Nodeps == Printed("nodeps", Sorted(no_deps))

\* Lines 148-156: the rows of one module of the table
VerboseRows(caller) ==
    LET external(e) == e[1] = caller /\ e[2] \notin all_modules
        externals   == SelectSeq(all_imports, external)
    IN  IF externals = <<>> THEN << <<caller, <<"-">> >> >>
        ELSE [idx \in DOMAIN externals |->
                 <<IF idx = 1 THEN caller ELSE <<>>, externals[idx][2]>>]

RECURSIVE VerboseTable(_)
VerboseTable(callers) ==
    IF callers = <<>> THEN <<>>
    ELSE VerboseRows(callers[1]) \o VerboseTable(Tail(callers))

NodepsVerbose == Printed("nodeps_verbose", VerboseTable(Sorted(no_deps)))

\* Lines 164-167 and 187-190
direct_dependents(pkg) ==
    {e[1] : e \in {x \in Range(all_imports) :
                       x[2] = pkg \/ StartsWith(x[2], pkg \o <<Dot>>)}}

\* Lines 159-161 and 182-184
MissingPackage ==
    /\ pc = "main"
    /\ \E m \in {"pkg_dep", "not_pkg_dep"}, pkg \in {None, <<>>} :
           /\ mode' = m
           /\ package' = pkg
    /\ out' = <<"Error">>
    /\ pc' = "done"
    /\ UNCHANGED <<disk, roots, all_modules, all_imports, module_to_path,
                   reverse_deps, start_modules, queue, visited, paths, enqueued>>

\* Lines 163-169 and 186-192, up to the loop of trace_dependency_paths
TraceCall ==
    /\ pc = "main"
    /\ \E m \in {"pkg_dep", "not_pkg_dep"}, pkg \in Packages :
           /\ mode' = m
           /\ package' = pkg
           /\ reverse_deps' = build_reverse_dep_graph(all_imports)
           /\ start_modules' = direct_dependents(pkg)
           /\ \E order \in Orders(direct_dependents(pkg)) :
                  LET st == TraceLocals(direct_dependents(pkg), order)
                  IN  /\ paths' = st.paths
                      /\ queue' = st.queue
                      /\ visited' = st.visited
                      /\ enqueued' = st.enqueued
    /\ pc' = "trace"
    /\ UNCHANGED <<disk, roots, all_modules, all_imports, module_to_path, out>>

\* Lines 171-179
PkgDepLines ==
    LET reached == Sorted(DOMAIN paths)
        direct  == Sorted(start_modules \ DOMAIN paths)
    IN  [i \in DOMAIN reached |->
            IF reached[i] \in start_modules
            THEN <<reached[i], "direct", <<>> >>
            ELSE <<reached[i], "indirect", paths[reached[i]]>>]
        \o [i \in DOMAIN direct |-> <<direct[i], "direct", <<>> >>]

PkgDepReport ==
    /\ pc = "returned"
    /\ mode = "pkg_dep"
    /\ out' = PkgDepLines
    /\ pc' = "done"
    /\ UNCHANGED <<disk, roots, mode, package, all_modules, all_imports,
                   module_to_path, reverse_deps, start_modules, queue, visited,
                   paths, enqueued>>

\* not_dependent with the imported modules subtracted instead of the dependents
not_dependent_by_keys == all_modules \ DOMAIN reverse_deps

\* Lines 193-195
not_dependent == all_modules \ (DOMAIN paths \cup start_modules)

\* Lines 197-198
NotPkgDepReport ==
    /\ pc = "returned"
    /\ mode = "not_pkg_dep"
    /\ out' = Sorted(not_dependent)
    /\ pc' = "done"
    /\ UNCHANGED <<disk, roots, mode, package, all_modules, all_imports,
                   module_to_path, reverse_deps, start_modules, queue, visited,
                   paths, enqueued>>

\* Lines 203-211: what outside_local[caller] holds
outside_local(caller) ==
    LET outside(e) ==
            /\ e[1] = caller
            /\ e[2] \in DOMAIN module_to_path
            /\ e[1] \in DOMAIN module_to_path
            /\ ~IsRelativeTo(module_to_path[e[2]], dirname(module_to_path[e[1]]))
        edges == SelectSeq(all_imports, outside)
    IN  [i \in DOMAIN edges |-> edges[i][2]]

\* Lines 214-222
OutsideLines ==
    LET callers == Sorted({e[1] : e \in {x \in Range(all_imports) :
                                            outside_local(x[1]) # <<>>}})
    IN  [i \in DOMAIN callers |->
            <<module_to_path[callers[i]],
              LET imps == SortedList(outside_local(callers[i]))
              IN  [k \in DOMAIN imps |-> module_to_path[imps[k]]]>>]

OutsideLocalDir == Printed("outside_local_dir", OutsideLines)

\* local_modules with the files of the directories below dirpath taken in
local_modules_recursive(root_dir, dirpath) ==
    {m \in {get_module_name(root_dir, p) :
                p \in {f \in WalkFiles(root_dir) :
                          IsRelativeTo(f, dirpath) /\ EndsWith(f, PyExt)}} :
        ~Falsy(m) /\ m \in DOMAIN module_to_path}

\* Lines 233-241: the modules of the .py files directly in dirpath
local_modules(root_dir, dirpath) ==
    {m \in {get_module_name(root_dir, p) :
                p \in {f \in WalkFiles(root_dir) :
                          dirname(f) = dirpath /\ EndsWith(f, PyExt)}} :
        ~Falsy(m) /\ m \in DOMAIN module_to_path}

\* Lines 242-250: the edges of those modules to a file outside dirpath
local_outside_deps(root_dir, dirpath) ==
    LET modules == local_modules(root_dir, dirpath)
    IN  {e \in Range(all_imports) :
            /\ e[1] \in modules
            /\ e[2] \in DOMAIN module_to_path
            /\ ~IsRelativeTo(module_to_path[e[2]], dirpath)}

\* Line 252
IsEncapsulated(root_dir, dirpath) ==
    local_modules(root_dir, dirpath) # {} /\ local_outside_deps(root_dir, dirpath) = {}

\* Lines 227-253: the list encapsulated, one root after the other
RECURSIVE Encapsulated(_)
Encapsulated(rs) ==
    IF rs = <<>> THEN <<>>
    ELSE LET dirs == Sorted({d \in WalkDirs(rs[1]) : IsEncapsulated(rs[1], d)})
         IN  dirs \o Encapsulated(Tail(rs))

\* Lines 256-257
EncapsulatedDir == Printed("encapsulated_dir", SortedPaths(Encapsulated(roots)))

----------------------------------------------------------------------------
(* The program: main from the parsed arguments to the end of the output.   *)

Init ==
    /\ disk \in Disks
    /\ roots \in RootLists
    /\ pc = "start"
    /\ mode = ""
    /\ package = None
    /\ all_modules = {}
    /\ all_imports = <<>>
    /\ module_to_path = <<>>
    /\ reverse_deps = <<>>
    /\ start_modules = {}
    /\ queue = <<>>
    /\ visited = {}
    /\ paths = <<>>
    /\ enqueued = <<>>
    /\ out = <<>>

Next ==
    \/ CollectModulesAndImports
    \/ Dep
    \/ Nodeps
    \/ NodepsVerbose
    \/ MissingPackage
    \/ TraceCall
    \/ TraceStep
    \/ TraceReturn
    \/ PkgDepReport
    \/ NotPkgDepReport
    \/ OutsideLocalDir
    \/ EncapsulatedDir

Spec == Init /\ [][Next]_vars

(* trace_dependency_paths alone, on any graph and any seeds.  The loop     *)
(* runs on while the queue is not empty: weak fairness of its steps.       *)

InitTrace ==
    /\ disk = <<>>
    /\ roots = <<>>
    /\ pc = "trace"
    /\ mode = "trace"
    /\ package = None
    /\ all_modules = {}
    /\ all_imports = <<>>
    /\ module_to_path = <<>>
    /\ out = <<>>
    /\ \E E \in Graphs, start \in SUBSET Nodes :
           /\ reverse_deps = ReverseOf(E)
           /\ start_modules = start
           /\ \E order \in Orders(start) :
                  LET st == TraceLocals(start, order)
                  IN  /\ paths = st.paths
                      /\ queue = st.queue
                      /\ visited = st.visited
                      /\ enqueued = st.enqueued

NextTrace == TraceStep \/ TraceReturn

SpecTrace == InitTrace /\ [][NextTrace]_vars /\ WF_vars(NextTrace)

----------------------------------------------------------------------------
(* The properties.                                                         *)

\* Every node trace_dependency_paths can meet
GraphNodes ==
    start_modules \cup DOMAIN reverse_deps
    \cup UNION {reverse_deps[t] : t \in DOMAIN reverse_deps}

\* The nodes at most k hops of the reverse graph away from a seed
RECURSIVE Within(_)
Within(k) ==
    IF k = 0 THEN start_modules
    ELSE LET near == Within(k - 1)
         IN  near \cup UNION {Get(reverse_deps, u) : u \in near}

\* The least number of hops from a seed to n
Distance(n) ==
    CHOOSE k \in 0..Cardinality(GraphNodes) :
        n \in Within(k) /\ (k = 0 \/ n \notin Within(k - 1))

\* C1: when trace_dependency_paths returns, whatever the graph, the seeds and
\* the iteration orders, paths holds exactly the nodes reachable from a seed
\* that are no seeds, and the path of each starts at a seed, ends at the node,
\* follows edges of the reverse graph hop by hop and has the least number of
\* hops from any seed; so the reached set and the lengths depend on the graph
\* and the set of seeds alone.
C1_ShortestPaths ==
    pc = "returned" =>
        /\ DOMAIN paths = Within(Cardinality(GraphNodes)) \ start_modules
        /\ \A n \in DOMAIN paths :
              LET p == paths[n]
              IN  /\ p[1] \in start_modules
                  /\ p[Len(p)] = n
                  /\ \A i \in 1..(Len(p) - 1) : p[i + 1] \in Get(reverse_deps, p[i])
                  /\ Len(p) - 1 = Distance(n)

\* C1 witness: two seeds, one of them one hop and the other two hops away
\* from a reached node, whose path is the one-hop one.
C1_Witness ==
    /\ pc = "returned"
    /\ Cardinality(start_modules) = 2
    /\ \E n \in DOMAIN paths : \E s1, s2 \in start_modules : \E m \in DOMAIN paths :
          /\ s1 # s2
          /\ n \in Get(reverse_deps, s1)
          /\ m \in Get(reverse_deps, s2)
          /\ n \in Get(reverse_deps, m)
          /\ Len(paths[n]) = 2

\* C2: in mode not_pkg_dep the direct dependents, the nodes the search
\* reached and the printed modules together are all_modules.
C2_PartitionComplete ==
    (pc = "done" /\ mode = "not_pkg_dep" /\ ~Falsy(package)) =>
        direct_dependents(package) \cup DOMAIN paths \cup Range(out) = all_modules

\* C2 witness: a run of not_pkg_dep with a direct dependent, an indirect
\* dependent and a module that depends on neither.
C2_Witness ==
    /\ pc = "done"
    /\ mode = "not_pkg_dep"
    /\ ~Falsy(package)
    /\ direct_dependents(package) # {}
    /\ DOMAIN paths # {}
    /\ out # <<>>

\* C3 as stated: a module is printed by nodeps iff no edge has it as target.
C3_NoIncomingEdge ==
    (pc = "done" /\ mode = "nodeps") =>
        \A M \in all_modules :
            M \in Range(out) <=> ~\E i \in DOMAIN all_imports : all_imports[i][2] = M

\* C3 amended: a module M of the known module set is printed by nodeps iff
\* no edge (M, T) has a target T in the known module set.
C3_NoOutgoingInternalEdge ==
    (pc = "done" /\ mode = "nodeps") =>
        /\ Range(out) \subseteq all_modules
        /\ \A M \in all_modules :
              M \in Range(out) <=>
                  ~\E i \in DOMAIN all_imports :
                       all_imports[i][1] = M /\ all_imports[i][2] \in all_modules

\* C3 witness: nodeps prints a module that is the target of an edge, and
\* leaves out a module that is the target of none.
C3_Witness ==
    /\ pc = "done"
    /\ mode = "nodeps"
    /\ \E M \in Range(out) : \E i \in DOMAIN all_imports : all_imports[i][2] = M
    /\ \E M \in all_modules \ Range(out) :
          ~\E i \in DOMAIN all_imports : all_imports[i][2] = M

\* The modules a run of nodeps or nodeps_verbose reports
ReportedModules ==
    IF mode = "nodeps" THEN Range(out)
    ELSE {out[i][1] : i \in DOMAIN out} \ {<<>>}

\* The tree of the round trip: __init__, a (imports pkgA.b), b (imports nothing)
RoundTripDisk ==
    [p \in {Under(<<Py(S_init)>>), Under(<<Py(S_a)>>), Under(<<Py(S_b)>>)} |->
        IF p = Under(<<Py(S_a)>>)
        THEN Source(<<Import(<<Dotted(<<S_pkgA, S_b>>)>>)>>)
        ELSE Source(<<>>)]

\* C4: nodeps and the module column of nodeps_verbose report exactly the
\* modules that are the caller of no edge with a target in all_modules, an
\* edge to a target outside all_modules removing nothing; on the tree of
\* __init__, a (imports pkgA.b) and b the report is pkgA.__init__ and pkgA.b.
C4_UnreferencedReport ==
    (pc = "done" /\ mode \in {"nodeps", "nodeps_verbose"}) =>
        /\ ReportedModules =
              {m \in all_modules :
                  \A i \in DOMAIN all_imports :
                      all_imports[i][1] = m => all_imports[i][2] \notin all_modules}
        /\ (roots = <<RootA>> /\ disk = RoundTripDisk) =>
              ReportedModules = {Dotted(<<S_pkgA, S_init>>), Dotted(<<S_pkgA, S_b>>)}

\* C4 witness: nodeps has printed the report of the round trip tree.
C4_Witness ==
    /\ pc = "done"
    /\ mode = "nodeps"
    /\ roots = <<RootA>>
    /\ disk = RoundTripDisk
    /\ out = <<Dotted(<<S_pkgA, S_init>>), Dotted(<<S_pkgA, S_b>>)>>

\* C5: with pkgA/a importing "from . import b" and pkgA/sub/c importing
\* "from .. import a", pkg_dep pkgA.a reports pkgA.sub.c with the path
\* [pkgA.a, pkgA.sub.c].
C5_RelativeDependentReported ==
    ( /\ pc = "done"
      /\ mode = "pkg_dep"
      /\ package = Dotted(<<S_pkgA, S_a>>)
      /\ roots = <<RootA>>
      /\ Under(<<Py(S_a)>>) \in DOMAIN disk
      /\ Under(<<S_sub, Py(S_c)>>) \in DOMAIN disk
      /\ disk[Under(<<Py(S_a)>>)] = Source(<<ImportFrom(None, <<S_b>>, 1)>>)
      /\ disk[Under(<<S_sub, Py(S_c)>>)] = Source(<<ImportFrom(None, <<S_a>>, 2)>>) )
    => \E i \in DOMAIN out :
           /\ out[i][1] = Dotted(<<S_pkgA, S_sub, S_c>>)
           /\ out[i][3] = <<Dotted(<<S_pkgA, S_a>>), Dotted(<<S_pkgA, S_sub, S_c>>)>>

\* The .py files under the root that get_module_name accepts
ModuleFiles(root) ==
    {f \in WalkFiles(root) : EndsWith(f, PyExt) /\ ~Falsy(get_module_name(root, f))}

\* C6: two distinct files under one root never get the same module name.
C6_ModuleNameInjective ==
    pc # "start" =>
        \A r \in Range(roots) : \A f, g \in ModuleFiles(r) :
            f # g => get_module_name(r, f) # get_module_name(r, g)

\* The modules whose file lives directly in the directory d
LocalModules(root, d) ==
    {get_module_name(root, f) : f \in {g \in ModuleFiles(root) : dirname(g) = d}}

\* The directories the walks of the roots visit
VisitedDirs == UNION {WalkDirs(r) : r \in Range(roots)}

\* The modules whose file lives directly in d, under the name of any root
ModulesIn(d) == UNION {LocalModules(r, d) : r \in Range(roots)}

\* The edge all_imports[i] has a known module as target, with its file
\* outside the tree of the directory d
LeavesDir(i, d) ==
    /\ all_imports[i][2] \in DOMAIN module_to_path
    /\ ~IsRelativeTo(module_to_path[all_imports[i][2]], d)

\* C7 as stated: a directory is reported iff it holds a module's file and
\* every edge of those modules has a target file inside the directory's tree.
C7_EveryEdgeInside ==
    (pc = "done" /\ mode = "encapsulated_dir") =>
        \A d \in VisitedDirs :
            d \in Range(out) <=>
                /\ ModulesIn(d) # {}
                /\ \A i \in DOMAIN all_imports :
                      all_imports[i][1] \in ModulesIn(d) =>
                          /\ all_imports[i][2] \in DOMAIN module_to_path
                          /\ IsRelativeTo(module_to_path[all_imports[i][2]], d)

\* C7 amended: a directory is reported iff, for one of the roots given whose
\* walk visits it, it holds directly the file of a module named from that
\* root, and every edge whose caller is one of the modules so named and whose
\* target is a known module has its target file inside the directory's tree;
\* edges to other targets, and the names the files get from other roots, are
\* ignored.  Nothing but a visited directory is reported.
C7_EveryKnownEdgeInside ==
    (pc = "done" /\ mode = "encapsulated_dir") =>
        /\ \A d \in VisitedDirs :
              d \in Range(out) <=>
                  \E r \in Range(roots) :
                      LET named == LocalModules(r, d)
                      IN  /\ d \in WalkDirs(r)
                          /\ named # {}
                          /\ \A i \in DOMAIN all_imports :
                                all_imports[i][1] \in named => ~LeavesDir(i, d)
        /\ Range(out) \subseteq VisitedDirs

\* C7 witness: two nested roots; a directory is reported through the walk of
\* the inner root, where its module has an edge to no known module, although
\* under the name of the outer root the same file has an edge to a known
\* module outside the directory; beside it a directory is left out for an
\* import of a known module of a sibling tree.
C7_Witness ==
    /\ pc = "done"
    /\ mode = "encapsulated_dir"
    /\ \E r1, r2 \in Range(roots) : \E d \in Range(out) :
          /\ r1 # r2
          /\ d \in WalkDirs(r1) \cap WalkDirs(r2)
          /\ \E i \in DOMAIN all_imports :
                all_imports[i][1] \in LocalModules(r1, d) /\ LeavesDir(i, d)
          /\ \E i \in DOMAIN all_imports :
                /\ all_imports[i][1] \in LocalModules(r2, d)
                /\ all_imports[i][2] \notin DOMAIN module_to_path
          /\ \A i \in DOMAIN all_imports :
                all_imports[i][1] \in LocalModules(r2, d) => ~LeavesDir(i, d)
    /\ \E d \in VisitedDirs \ Range(out) : \E i \in DOMAIN all_imports :
          /\ all_imports[i][1] \in ModulesIn(d)
          /\ LeavesDir(i, d)
          /\ ~IsRelativeTo(d, dirname(module_to_path[all_imports[i][2]]))

\* The number of segments of a module name before its own final name
PackageDepth(module) == Len(Split(module, Dot)) - 1

\* C8: a relative import whose level exceeds the package depth of its caller
\* gives an edge whose target is no member of all_modules, and mode dep
\* prints no such edge.
C8_UnderflowNeverResolves ==
    pc # "start" =>
        \A r \in Range(roots) : \A f \in ModuleFiles(r) :
            disk[f].parses =>
                \A k \in DOMAIN disk[f].nodes :
                    LET node   == disk[f].nodes[k]
                        caller == get_module_name(r, f)
                        target == resolve_relative_import(Split(caller, Dot),
                                                          node.level, node.module)
                    IN  (node.type = "ImportFrom" /\ node.level > PackageDepth(caller)) =>
                            /\ target \notin all_modules
                            /\ (pc = "done" /\ mode = "dep") =>
                                   <<caller, target>> \notin Range(out)

\* The edges a node must give, by the form of the statement
ExpectedEdgeCount(node) ==
    IF node.type = "Import" \/ node.level = 0 THEN Len(node.names) ELSE 1

RECURSIVE ExpectedEdges(_)
ExpectedEdges(nodes) ==
    IF nodes = <<>> THEN 0
    ELSE ExpectedEdgeCount(nodes[1]) + ExpectedEdges(Tail(nodes))

\* <root>/<X as a path>/<tail>
Probe(root, X, tail) ==
    root \o <<Sep>> \o [i \in DOMAIN X |-> IF X[i] = Dot THEN Sep ELSE X[i]]
         \o <<Sep>> \o tail

\* C9: for every discovered file that parses, analyze_imports gives one edge
\* per imported name of a plain import, with the name as target; one edge per
\* imported name n of an absolute "from X import", with target X.n if
\* <root>/<X>/n.py or <root>/<X>/n/__init__.py is a file and X otherwise; and
\* one edge for a relative from-import whatever the number of its names; all
\* of them are in the edge list of the run.
C9_OneEdgePerName ==
    pc # "start" =>
        \A r \in Range(roots) : \A f \in ModuleFiles(r) :
            disk[f].parses =>
                LET nodes  == disk[f].nodes
                    edges  == analyze_imports(r, f)
                    caller == get_module_name(r, f)
                    at(k)  == ExpectedEdges(SubSeq(nodes, 1, k - 1))
                IN  /\ Len(edges) = ExpectedEdges(nodes)
                    /\ Range(edges) \subseteq Range(all_imports)
                    /\ \A k \in DOMAIN nodes :
                          LET node == nodes[k]
                          IN  IF node.type = "Import"
                              THEN \A j \in DOMAIN node.names :
                                       edges[at(k) + j] = <<caller, node.names[j]>>
                              ELSE IF node.level = 0
                              THEN \A j \in DOMAIN node.names :
                                       LET n == node.names[j]
                                           X == node.module
                                       IN  edges[at(k) + j] =
                                               <<caller,
                                                 IF \/ Probe(r, X, Py(n)) \in DOMAIN disk
                                                    \/ Probe(r, X, n \o <<Sep>> \o Py(S_init))
                                                           \in DOMAIN disk
                                                 THEN X \o <<Dot>> \o n
                                                 ELSE X>>
                              ELSE edges[at(k) + 1] =
                                       <<caller,
                                         resolve_relative_import(Split(caller, Dot),
                                                                 node.level, node.module)>>

\* C9 witness: after collection, a tree with a plain import of two names, an
\* absolute from-import of two names of which one is a file, and a relative
\* from-import of two names.
C9_Witness ==
    /\ pc = "main"
    /\ \E f, g, h \in DOMAIN disk :
          /\ disk[f].parses /\ disk[g].parses /\ disk[h].parses
          /\ \E k \in DOMAIN disk[f].nodes :
                disk[f].nodes[k].type = "Import" /\ Len(disk[f].nodes[k].names) = 2
          /\ \E k \in DOMAIN disk[g].nodes :
                /\ disk[g].nodes[k].type = "ImportFrom"
                /\ disk[g].nodes[k].level = 0
                /\ Len(disk[g].nodes[k].names) = 2
                /\ <<get_module_name(RootA, g), Dotted(<<S_sub, S_c>>)>> \in Range(all_imports)
                /\ <<get_module_name(RootA, g), S_sub>> \in Range(all_imports)
          /\ \E k \in DOMAIN disk[h].nodes :
                /\ disk[h].nodes[k].level = 1
                /\ Len(disk[h].nodes[k].names) = 2

\* C10: on every graph, cycles and self-loops included, and for every set of
\* seeds, the loop of trace_dependency_paths ends with the queue empty; all
\* along, a node is put in visited and appended to the queue at most once, no
\* seed gets an entry in paths, and the reverse graph is not changed.
C10_Terminates ==
    /\ <>(pc = "returned" /\ queue = <<>>)
    /\ [](/\ DOMAIN enqueued = visited
          /\ \A n \in DOMAIN enqueued : enqueued[n] <= 1
          /\ \A i, j \in DOMAIN queue : i # j => queue[i][1] # queue[j][1]
          /\ DOMAIN paths \cap start_modules = {})
    /\ [][reverse_deps' = reverse_deps /\ visited \subseteq visited']_vars

\* C10 witness: the search has returned on a graph with a self-loop on a seed
\* and a cycle through a seed and a reached node.
C10_Witness ==
    /\ pc = "returned"
    /\ \E s \in start_modules : s \in Get(reverse_deps, s)
    /\ \E s \in start_modules : \E n \in DOMAIN paths :
          n \in Get(reverse_deps, s) /\ s \in Get(reverse_deps, n)

====
